---- MODULE Spec2Model ----
(***************************************************************************)
(* Resource directory and advisory lock manager of the NFP driver           *)
(* (src/src/nfpcore/nfp_resource.c): nfp_resource_acquire(),                *)
(* nfp_resource_release() and the directory scan, run by several actors     *)
(* against one device-resident resource table and its hardware mutexes.     *)
(***************************************************************************)
EXTENDS Integers, Sequences, FiniteSets, TLC

(***************************************************************************)
(* Bounds of the model.                                                     *)
(***************************************************************************)
\* number of table slots scanned; stands for NFP_RESOURCE_TBL_ENTRIES
\* (NFP_RESOURCE_TBL_SIZE / sizeof(struct nfp_resource_entry) = 4096 / 32)
TblEntries == 3

\* the concurrent callers sharing the device
Actors == {1, 2}
Slots == 0 .. (TblEntries - 1)

\* NULL pointer / unowned mutex word
None == 0

(***************************************************************************)
(* Program constants.                                                       *)
(***************************************************************************)
NFP_RESOURCE_ENTRY_NAME_SZ == 8
\* sizeof(struct nfp_resource_entry): mutex {u32, u32} + region
\* {u8[8], u8[5], u8, u8, u8, u32, u32}
EntrySize == 32
ENOENT == 2
EIO == 5
ENOMEM == 12
EBUSY == 16

\* NFP_RESOURCE_TBL_NAME "nfp.res" as bytes
NFP_RESOURCE_TBL_NAME == <<110, 102, 112, 46, 114, 101, 115>>
\* NFP_RESOURCE_TBL_TARGET (NFP_CPP_TARGET_MU)
NFP_RESOURCE_TBL_TARGET == 7
\* NFP_RESOURCE_TBL_KEY, the special key of entry 0, as a 32-bit word
\* (bit 1 is the most significant bit)
NFP_RESOURCE_TBL_KEY ==
    <<0,0,0,0, 0,0,0,0, 0,0,0,0, 0,0,0,0, 0,0,0,0, 0,0,0,0, 0,0,0,0, 0,0,0,0>>
\* The address of slot i, as the byte offset from NFP_RESOURCE_TBL_BASE
NFP_RESOURCE_TBL_BASE == 0

(***************************************************************************)
(* 32-bit words as bit vectors, and crc32_posix().                          *)
(***************************************************************************)
\* the 8 bits of a byte, most significant first
ByteBits(b) ==
    << (b \div 128) % 2, (b \div 64) % 2, (b \div 32) % 2, (b \div 16) % 2,
       (b \div 8) % 2, (b \div 4) % 2, (b \div 2) % 2, b % 2 >>

\* bitwise exclusive or of two bytes
Xor8(x, y) ==
    << (x[1] + y[1]) % 2, (x[2] + y[2]) % 2, (x[3] + y[3]) % 2,
       (x[4] + y[4]) % 2, (x[5] + y[5]) % 2, (x[6] + y[6]) % 2,
       (x[7] + y[7]) % 2, (x[8] + y[8]) % 2 >>

\* bitwise exclusive or of two 32-bit words
XorBits(x, y) ==
    Xor8(SubSeq(x, 1, 8), SubSeq(y, 1, 8))
        \o Xor8(SubSeq(x, 9, 16), SubSeq(y, 9, 16))
        \o Xor8(SubSeq(x, 17, 24), SubSeq(y, 17, 24))
        \o Xor8(SubSeq(x, 25, 32), SubSeq(y, 25, 32))

\* bitwise complement
RECURSIVE NotBits(_)
NotBits(x) ==
    IF Len(x) = 0 THEN <<>>
    ELSE IF Len(x) = 1 THEN <<1 - x[1]>>
    ELSE LET h == Len(x) \div 2
         IN  NotBits(SubSeq(x, 1, h)) \o NotBits(SubSeq(x, h + 1, Len(x)))

Zero32 == <<0,0,0,0, 0,0,0,0, 0,0,0,0, 0,0,0,0, 0,0,0,0, 0,0,0,0, 0,0,0,0, 0,0,0,0>>

\* CRC-32 polynomial 0x04c11db7
CRCPOLY_BE ==
    <<0,0,0,0, 0,1,0,0, 1,1,0,0, 0,0,0,1, 0,0,0,1, 1,1,0,1, 1,0,1,1, 0,1,1,1>>

\* crc = (crc << 1) ^ ((crc & 0x80000000) ? CRCPOLY_BE : 0)
crc32_be_bit(crc) ==
    LET shifted == Tail(crc) \o <<0>>
    IN  IF Head(crc) = 1 THEN XorBits(shifted, CRCPOLY_BE) ELSE shifted

RECURSIVE crc32_be_bits(_, _)
crc32_be_bits(crc, n) ==
    IF n = 0 THEN crc
    ELSE LET next == crc32_be_bit(crc)
         IN  IF Len(next) = 32 THEN crc32_be_bits(next, n - 1) ELSE <<>>

\* one byte of crc32_be(): crc ^= byte << 24, then eight shift steps
crc32_be_byte(crc, b) ==
    LET top == Xor8(SubSeq(crc, 1, 8), ByteBits(b)) \o SubSeq(crc, 9, 32)
    IN  IF Len(top) = 32 THEN crc32_be_bits(top, 8) ELSE <<>>

RECURSIVE crc32_be(_, _)
crc32_be(crc, buf) ==
    IF buf = <<>> THEN crc
    ELSE LET next == crc32_be_byte(crc, Head(buf))
         IN  IF Len(next) = 32 THEN crc32_be(next, Tail(buf)) ELSE <<>>

\* crc32_posix_end(): extend with the bytes of the length, then complement
RECURSIVE crc32_posix_end(_, _)
crc32_posix_end(crc, total_len) ==
    IF total_len = 0 THEN NotBits(crc)
    ELSE LET next == crc32_be_byte(crc, total_len % 256)
         IN  IF Len(next) = 32 THEN crc32_posix_end(next, total_len \div 256)
             ELSE <<>>

crc32_posix(buf) == crc32_posix_end(crc32_be(Zero32, buf), Len(buf))

(***************************************************************************)
(* Names and key derivation (nfp_cpp_resource_find, lines 129-141).         *)
(***************************************************************************)
\* strncpy(dst, name, n) into a zeroed buffer of n bytes: the first n bytes
\* of the C string, zero padded on the right
RECURSIVE strncpy(_, _)
strncpy(name, n) ==
    IF n = 0 THEN <<>>
    ELSE IF name = <<>> THEN <<0>> \o strncpy(name, n - 1)
    ELSE <<Head(name)>> \o strncpy(Tail(name), n - 1)

\* the C string held in a buffer that is followed by a NUL byte
RECURSIVE CStr(_)
CStr(buf) ==
    IF buf = <<>> \/ Head(buf) = 0 THEN <<>> ELSE <<Head(buf)>> \o CStr(Tail(buf))

\* ResourceKey as it would be if the checksum ran over the name as passed
\* (strlen bytes) and not over the eight bytes of name_pad
ResourceKey_unpadded(name) ==
    IF strncpy(name, NFP_RESOURCE_ENTRY_NAME_SZ)
           = strncpy(NFP_RESOURCE_TBL_NAME, NFP_RESOURCE_ENTRY_NAME_SZ)
    THEN NFP_RESOURCE_TBL_KEY
    ELSE crc32_posix(name)

\* key = NFP_RESOURCE_TBL_KEY;
\* if (memcmp(name_pad, NFP_RESOURCE_TBL_NAME "\0...", 8)) key = crc32_posix(..)
ResourceKey(name) ==
    LET name_pad == strncpy(name, NFP_RESOURCE_ENTRY_NAME_SZ)
    IN  IF name_pad = strncpy(NFP_RESOURCE_TBL_NAME, NFP_RESOURCE_ENTRY_NAME_SZ)
        THEN NFP_RESOURCE_TBL_KEY
        ELSE crc32_posix(name_pad)

\* "a", "b": the resources firmware may provision
NameA == <<97>>
NameB == <<98>>
ResNames == {NameA, NameB}
\* the names callers ask for
CallNames == ResNames \cup {NFP_RESOURCE_TBL_NAME}

(***************************************************************************)
(* Pointers, records and the resource table.                                *)
(***************************************************************************)
\* a pointer is NULL (the empty tuple) or holds the object it points to
Null == <<>>
Ptr(x) == <<x>>
Deref(p) == p[1]

\* a small number as a 32-bit word
RECURSIVE NatBits(_, _)
NatBits(n, w) ==
    IF w = 0 THEN <<>>
    ELSE IF w = 1 THEN <<n % 2>>
    ELSE IF w > 16 THEN NatBits(n \div 65536, w - 16) \o NatBits(n % 65536, 16)
    ELSE LET l == w \div 2
         IN  NatBits(n \div (2 ^ l), w - l) \o NatBits(n % (2 ^ l), l)
U32(n) == NatBits(n, 32)

\* (u64)x << 8 of a 32-bit word x, as a 64-bit word
\* x << 8 computed in 32 bits and then widened
ShiftLeft8_u32(x) == NatBits(0, 32) \o SubSeq(x, 9, 32) \o NatBits(0, 8)
ShiftLeft8_u64(x) == NatBits(0, 24) \o x \o NatBits(0, 8)

\* NFP_CPP_ID(target, action, token)
NFP_CPP_ID(target, action, token) ==
    ((target % 128) * 16777216) + ((token % 256) * 65536) + ((action % 256) * 256)

\* byte address of slot i: NFP_RESOURCE_TBL_BASE + sizeof(entry) * i
SlotAddr(i) == NFP_RESOURCE_TBL_BASE + EntrySize * i
\* the slot whose mutex word lives at an address
SlotOf(addr) == (addr - NFP_RESOURCE_TBL_BASE) \div EntrySize

\* struct nfp_resource_entry of slot i provisioned for a name: the key of the
\* mutex word and the region descriptor.  Page numbers differ from slot to
\* slot, so a handle tells which slot it was built from.
EntryFor(i, n) ==
    [ key         |-> ResourceKey(n),
      name        |-> strncpy(n, NFP_RESOURCE_ENTRY_NAME_SZ),
      cpp_action  |-> i % 4,
      cpp_token   |-> i % 2,
      cpp_target  |-> NFP_RESOURCE_TBL_TARGET,
      page_offset |-> IF i % 2 = 1 THEN U32(4 * i) ELSE NotBits(U32(i)),
      page_size   |-> IF i % 2 = 1 THEN NotBits(U32(2 * i)) ELSE U32(2 * i) ]

\* the tables firmware may have provisioned: slot 0 describes the table
\* itself, every other slot carries one of the resource names (a name may
\* be absent, or present more than once)
Tables ==
    { [i \in Slots |->
          IF i = 0 THEN EntryFor(0, NFP_RESOURCE_TBL_NAME) ELSE EntryFor(i, f[i])] :
      f \in [Slots \ {0} -> ResNames] }

\* the key nfp_cpp_resource_find() derives for each name callers pass
KeyMemo == [n \in CallNames |-> ResourceKey(n)]

\* struct nfp_cpp_mutex: the hardware mutex word it names
Mutex(addr, k) == [address |-> addr, key |-> k]

\* the locals of no call
NoFrame ==
    [ name |-> <<>>, key |-> Zero32, i |-> 0, err |-> 0,
      dev_mutex |-> Null, res |-> Null ]

\* what a call returned: nothing yet, ERR_PTR(-err), or a handle
NoRet == [kind |-> "none", err |-> 0, res |-> Null]
RetErr(e) == [kind |-> "error", err |-> e, res |-> Null]
RetHandle(r) == [kind |-> "handle", err |-> 0, res |-> r]

(***************************************************************************)
(* Port ids (src/src/mbl/nfp_ual.c): u32 values as 32-bit vectors.          *)
(***************************************************************************)
EINVAL == 22
AndBits(a, b) == [i \in 1 .. Len(a) |-> a[i] * b[i]]
OrBits(a, b) == [i \in 1 .. Len(a) |-> IF a[i] + b[i] > 0 THEN 1 ELSE 0]
\* the u32 whose top byte is h and whose low 24 bits are l
HiLo(h, l) == NatBits(h, 8) \o NatBits(l, 24)
\* the two masks: the top byte for MBL with the rest for the UAL, the top
\* half for MBL with the rest for the UAL, and a UAL mask that overlaps
\* the MBL one
MaskPairs ==
    { [mbl |-> HiLo(255, 0), ual |-> HiLo(0, 16777215)],
      [mbl |-> HiLo(255, 16711680), ual |-> HiLo(0, 65535)],
      [mbl |-> HiLo(255, 0), ual |-> HiLo(255, 16777215)] }
Reprs == {1, 2}
PortCallers == {1, 2}
\* port ids representors are created with: MBL bits set, UAL bits clear or set
InitialPortIds == {HiLo(129, 65536), HiLo(66, 7)}
\* port ids the UAL passes: with and without bits in the MBL range
CallPortIds == {HiLo(0, 5), HiLo(0, 65541), HiLo(128, 5)}
NoPortCall == [repr |-> 0, port_id |-> Zero32, old_port_id |-> Zero32, ret |-> 1]

(***************************************************************************)
(* UAL registration (src/src/mbl/nfp_ual.c, lines 51-124).                  *)
(***************************************************************************)
EAGAIN == 11
EEXIST == 17
Threads == {1, 2}
\* const struct nfp_ual_ops *: NULL, two ops structures, and one whose
\* name is NULL
NoOps == 0
UalOps == {1, 2}
NamelessOps == 3
\* void *cookie: NULL; the cookie thread t passes is t
NoCookie == 0
\* what thread t passes to nfp_ual_register(): its own ops and cookie, or
\* ops the argument check rejects
RegisterArgs(t) == {<<t, t>>, <<NoOps, t>>, <<NamelessOps, t>>}
\* what nfp_mbl_try_init_ual() may return
InitResults == {0, -ENOMEM}
\* counts of registrations are kept up to this many
MaxRegCount == 2
NoRegistration == [ops |-> NoOps, cookie |-> NoCookie]
\* fn: the function called; ops, cookie: its arguments; done, ret: whether
\* it has returned, and what (for nfp_ual_unregister ret is its local
\* cookie once loaded); seen: the registration in force at the call;
\* busy: another call was in progress at some time during this one;
\* cut: a step of an unregister call ran while this register call was
\* between its entry and its mutex_unlock; taken: an unregister call loaded
\* the cookie this register call had stored and not yet unlocked
NoUalCall ==
    [ fn |-> "none", ops |-> NoOps, cookie |-> NoCookie,
      done |-> FALSE, ret |-> 0, seen |-> NoRegistration,
      busy |-> FALSE, cut |-> FALSE, taken |-> FALSE ]

(***************************************************************************)
(* State.                                                                   *)
(***************************************************************************)
VARIABLES
    table,    \* the resource table: key and region descriptor of each slot
    hw,       \* entry.mutex.owner of each slot: the actor owning the hardware
              \* mutex at that address, or None; slot 0's is the Device Lock
    pc,       \* where each actor is in nfp_resource_acquire()
    frame,    \* the locals of each actor's call
    handles,  \* the live struct nfp_resource handles of each actor
    ret,      \* the value the finished call returns to the actor
    trace,    \* the bus and allocator events of each actor's latest call
    heap,     \* live allocations of each actor: mutex handles and records
    wedged,   \* slots whose nfp_cpp_mutex_unlock() reported an error
    got,      \* what the accessors returned to each actor for its live handles
    key_names,  \* two names handed to the key derivation
    key_out,    \* the keys derived for them, once derived
    port_masks,     \* NFP_MBL_PORTID_MBL_MASK and NFP_MBL_PORTID_UAL_MASK
    repr_port_id,   \* the port id of each representor's netdev
    repr_port_id0,  \* the port id each representor was created with
    port_pc,        \* where each caller is in nfp_ual_set_port_id()
    port_frame,     \* arguments, locals and result of each caller's call
    ctx,            \* struct nfp_mbl_global_data: ual_ops, ual_cookie,
                    \* mbl_lock, and whether dev_ctx[PRIMARY] is set
    ual_pc,         \* where each thread is in nfp_ual_register() or
                    \* nfp_ual_unregister()
    ual_frame,      \* the latest UAL call of each thread and what it returned
    registered,     \* ops and cookie of the latest registration completed
                    \* (init step succeeded, mbl_lock released) with no step
                    \* of an nfp_ual_unregister() from nfp_mbl_stop_ual()
                    \* on during it or after it
    reg_ok          \* how many such registrations since the last step of
                    \* an nfp_ual_unregister()

\* the state nfp_resource_acquire() and nfp_resource_release() work on
resVars == <<table, hw, pc, frame, handles, ret, trace, heap, wedged>>
\* the state of the callers of the accessors
accVars == <<got>>
\* the inputs and results of the key derivation on its own
keyVars == <<key_names, key_out>>
\* the representors and the callers of nfp_ual_set_port_id()
portVars == <<port_masks, repr_port_id, repr_port_id0, port_pc, port_frame>>
\* the UAL registration and its callers
ualVars == <<ctx, ual_pc, ual_frame, registered, reg_ok>>
vars == <<resVars, accVars, keyVars, portVars, ualVars>>
\* what acquire and release leave alone, and what the accessors' callers do
nonResVars == <<accVars, keyVars, portVars, ualVars>>
nonAccVars == <<keyVars, portVars, ualVars>>
nonKeyVars == <<resVars, accVars, portVars, ualVars>>
nonPortVars == <<resVars, accVars, keyVars, ualVars>>
nonUalVars == <<resVars, accVars, keyVars, portVars>>

ResInit ==
    /\ table \in Tables
    /\ hw = [i \in Slots |-> None]
    /\ pc = [a \in Actors |-> "idle"]
    /\ frame = [a \in Actors |-> NoFrame]
    /\ handles = [a \in Actors |-> {}]
    /\ ret = [a \in Actors |-> NoRet]
    /\ trace = [a \in Actors |-> <<>>]
    /\ heap = [a \in Actors |-> [mutex |-> 0, res |-> 0]]
    /\ wedged = {}
    /\ got = [a \in Actors |-> {}]

KeyIdle ==
    /\ key_names = <<NameA, NameB>>
    /\ key_out = <<>>

PortIdle ==
    /\ port_masks = [mbl |-> HiLo(255, 0), ual |-> HiLo(0, 16777215)]
    /\ repr_port_id = [r \in Reprs |-> Zero32]
    /\ repr_port_id0 = repr_port_id
    /\ port_pc = [c \in PortCallers |-> "idle"]
    /\ port_frame = [c \in PortCallers |-> NoPortCall]

UalIdle ==
    /\ ctx = [present |-> TRUE, dev_ctx |-> FALSE,
              ual_ops |-> NoOps, ual_cookie |-> NoCookie,
              mbl_lock |-> None]
    /\ ual_pc = [t \in Threads |-> "idle"]
    /\ ual_frame = [t \in Threads |-> NoUalCall]
    /\ registered = NoRegistration
    /\ reg_ok = 0

Init ==
    /\ ResInit
    /\ KeyIdle
    /\ PortIdle
    /\ UalIdle

(***************************************************************************)
(* The hardware mutex primitive: nfp_cpp_mutex_lock, nfp_cpp_mutex_unlock.  *)
(***************************************************************************)
\* nfp_cpp_mutex_lock() takes the mutex only when its word is unowned
nfp_cpp_mutex_trylock(h, m) == h[SlotOf(m.address)] = None
nfp_cpp_mutex_locked(h, m, a) == [h EXCEPT ![SlotOf(m.address)] = a]
\* nfp_cpp_mutex_unlock(): clears the word, or reports an error and leaves it
nfp_cpp_mutex_unlock(h, m, out) ==
    IF out = "ok" THEN [h EXCEPT ![SlotOf(m.address)] = None] ELSE h
Wedge(w, m, out) == IF out = "ok" THEN w ELSE w \cup {SlotOf(m.address)}

\* heap bookkeeping
Alloc(hp, a, what, n) == [hp EXCEPT ![a][what] = @ + n]

\* one event of a call's trace
Ev(kind, arg) == <<kind, arg>>
Log(tr, a, evs) == [tr EXCEPT ![a] = @ \o evs]

\* the record kzalloc() returns, with the name copied in (line 190)
NewRes(n) ==
    [ name   |-> CStr(strncpy(n, NFP_RESOURCE_ENTRY_NAME_SZ)),
      cpp_id |-> 0,
      addr   |-> NatBits(0, 64),
      size   |-> NatBits(0, 64),
      mutex  |-> Null ]

\* the locals once the call has returned: its pointers are gone
Returned(f) == [f EXCEPT !.dev_mutex = Null, !.res = Null]

(***************************************************************************)
(* nfp_resource_acquire(), step by step.                                    *)
(***************************************************************************)
\* Lines 186-190 and nfp_device_lock()'s allocation (lines 100-104):
\* allocate the record, copy the name, allocate the Device Lock handle.
\*   out = "nores":   kzalloc() fails, return ERR_PTR(-ENOMEM)
\*   out = "nomutex": nfp_cpp_mutex_alloc() fails, nfp_device_lock() returns
\*                    NULL, goto err_free_res
acquire_begin(a, n, out) ==
    /\ pc[a] = "idle"
    /\ CASE out = "nores" ->
              /\ frame' = [frame EXCEPT ![a] = [NoFrame EXCEPT !.name = n]]
              /\ ret' = [ret EXCEPT ![a] = RetErr(ENOMEM)]
              /\ pc' = [pc EXCEPT ![a] = "ret"]
              /\ trace' = [trace EXCEPT ![a] = <<Ev("kzalloc_fail", 0)>>]
              /\ heap' = heap
         [] out = "nomutex" ->
              /\ frame' = [frame EXCEPT
                             ![a] = [NoFrame EXCEPT !.name = n, !.err = ENOMEM]]
              /\ ret' = [ret EXCEPT ![a] = RetErr(ENOMEM)]
              /\ pc' = [pc EXCEPT ![a] = "ret"]
              /\ trace' = [trace EXCEPT ![a] = <<Ev("kzalloc", 0),
                                                  Ev("dev_alloc_fail", 0),
                                                  Ev("kfree", 0)>>]
              /\ heap' = Alloc(Alloc(heap, a, "res", 1), a, "res", -1)
         [] OTHER ->
              /\ frame' = [frame EXCEPT
                             ![a] = [NoFrame EXCEPT
                                       !.name = n,
                                       !.res = Ptr(NewRes(n)),
                                       !.dev_mutex =
                                           Ptr(Mutex(NFP_RESOURCE_TBL_BASE,
                                                     NFP_RESOURCE_TBL_KEY))]]
              /\ ret' = ret
              /\ pc' = [pc EXCEPT ![a] = "dev_lock"]
              /\ trace' = [trace EXCEPT ![a] = <<Ev("kzalloc", 0),
                                                  Ev("dev_alloc", 0)>>]
              /\ heap' = Alloc(Alloc(heap, a, "res", 1), a, "mutex", 1)
    /\ UNCHANGED <<table, hw, handles, wedged>>

\* nfp_device_lock() as it would be without the nfp_cpp_mutex_free() of
\* line 107: a failed lock leaves the handle allocated
nfp_device_lock_leak(a, out) ==
    /\ pc[a] = "dev_lock"
    /\ IF out = "fail"
       THEN /\ frame' = [frame EXCEPT ![a] = Returned([@ EXCEPT !.err = ENOMEM])]
            /\ ret' = [ret EXCEPT ![a] = RetErr(ENOMEM)]
            /\ pc' = [pc EXCEPT ![a] = "ret"]
            /\ trace' = Log(trace, a, <<Ev("dev_lock_fail", 0), Ev("kfree", 0)>>)
            /\ heap' = Alloc(heap, a, "res", -1)
            /\ hw' = hw
       ELSE /\ nfp_cpp_mutex_trylock(hw, Deref(frame[a].dev_mutex))
            /\ hw' = nfp_cpp_mutex_locked(hw, Deref(frame[a].dev_mutex), a)
            /\ frame' = [frame EXCEPT ![a].key = KeyMemo[frame[a].name],
                                      ![a].i = 0]
            /\ pc' = [pc EXCEPT ![a] = "find"]
            /\ trace' = Log(trace, a, <<Ev("dev_lock", 0)>>)
            /\ UNCHANGED <<ret, heap>>
    /\ UNCHANGED <<table, handles, wedged>>

\* nfp_device_lock() as it would be without the check of what
\* nfp_cpp_mutex_lock() returned: the scan starts although the lock failed
nfp_device_lock_unchecked(a, out) ==
    /\ pc[a] = "dev_lock"
    /\ IF out = "fail" THEN hw' = hw
       ELSE /\ nfp_cpp_mutex_trylock(hw, Deref(frame[a].dev_mutex))
            /\ hw' = nfp_cpp_mutex_locked(hw, Deref(frame[a].dev_mutex), a)
    /\ frame' = [frame EXCEPT ![a].key = KeyMemo[frame[a].name], ![a].i = 0]
    /\ pc' = [pc EXCEPT ![a] = "find"]
    /\ trace' = Log(trace, a, <<Ev("dev_lock", 0)>>)
    /\ UNCHANGED <<table, handles, ret, heap, wedged>>

\* nfp_device_lock(), lines 106-112, and its caller, lines 192-196: lock the
\* Device Lock; the call waits while another actor owns it.
\*   out = "fail": nfp_cpp_mutex_lock() reports an error: free the handle,
\*                 return NULL; the caller sets -ENOMEM, goto err_free_res
nfp_device_lock(a, out) ==
    /\ pc[a] = "dev_lock"
    /\ IF out = "fail"
       THEN /\ frame' = [frame EXCEPT ![a] = Returned([@ EXCEPT !.err = ENOMEM])]
            /\ ret' = [ret EXCEPT ![a] = RetErr(ENOMEM)]
            /\ pc' = [pc EXCEPT ![a] = "ret"]
            /\ trace' = Log(trace, a, <<Ev("dev_lock_fail", 0),
                                        Ev("dev_free", 0), Ev("kfree", 0)>>)
            /\ heap' = Alloc(Alloc(heap, a, "mutex", -1), a, "res", -1)
            /\ hw' = hw
       ELSE /\ nfp_cpp_mutex_trylock(hw, Deref(frame[a].dev_mutex))
            /\ hw' = nfp_cpp_mutex_locked(hw, Deref(frame[a].dev_mutex), a)
            \* nfp_cpp_resource_find() starts: lines 129-141
            /\ frame' = [frame EXCEPT ![a].key = KeyMemo[frame[a].name],
                                      ![a].i = 0]
            /\ pc' = [pc EXCEPT ![a] = "find"]
            /\ trace' = Log(trace, a, <<Ev("dev_lock", 0)>>)
            /\ UNCHANGED <<ret, heap>>
    /\ UNCHANGED <<table, handles, wedged>>

\* nfp_cpp_resource_find() with its loop bound and its reaction to a short
\* read changed
find_variant(a, out, n_entries, short_aborts, first_wins) ==
    /\ pc[a] = "find"
    /\ LET i == frame[a].i
           entry == table[i]
           addr == SlotAddr(i)
       IN  CASE out = "short" /\ short_aborts ->
                  /\ frame' = [frame EXCEPT ![a].err = EIO]
                  /\ pc' = [pc EXCEPT ![a] = "err_unlock_dev"]
                  /\ trace' = Log(trace, a, <<Ev("read_short", i)>>)
                  /\ heap' = heap
             [] \/ out = "short" /\ ~short_aborts
                \/ out # "short" /\ entry.key # frame[a].key
                \/ /\ out # "short" /\ ~first_wins
                   /\ \E j \in Slots : j > i /\ j < n_entries
                                         /\ table[j].key = frame[a].key ->
                  /\ out \in {"ok", "short"}
                  /\ trace' = Log(trace, a, <<Ev(IF out = "short" THEN "read_short"
                                                 ELSE "read", i)>>)
                  /\ heap' = heap
                  /\ IF i + 1 < n_entries
                     THEN /\ frame' = [frame EXCEPT ![a].i = i + 1]
                          /\ pc' = pc
                     ELSE /\ frame' = [frame EXCEPT ![a].err = ENOENT]
                          /\ pc' = [pc EXCEPT ![a] = "err_unlock_dev"]
             [] OTHER ->
                  /\ frame' = [frame EXCEPT
                       ![a].res = Ptr([Deref(@) EXCEPT
                           !.mutex = IF out = "nomutex" THEN Null
                                     ELSE Ptr(Mutex(addr, frame[a].key)),
                           !.cpp_id = NFP_CPP_ID(entry.cpp_target,
                                                 entry.cpp_action,
                                                 entry.cpp_token),
                           !.addr = ShiftLeft8_u64(entry.page_offset),
                           !.size = ShiftLeft8_u64(entry.page_size)])]
                  /\ pc' = [pc EXCEPT ![a] = "res_lock"]
                  /\ trace' = Log(trace, a,
                        <<Ev("read", i),
                          Ev(IF out = "nomutex" THEN "res_alloc_fail"
                             ELSE "res_alloc", i)>>)
                  /\ heap' = IF out = "nomutex" THEN heap
                             ELSE Alloc(heap, a, "mutex", 1)
    /\ UNCHANGED <<table, hw, handles, ret, wedged>>
\* "continue" in place of "return -EIO" (line 149)
find_continue_on_short(a, out) == find_variant(a, out, TblEntries, FALSE, TRUE)
\* the loop stops one slot early (line 143)
find_bound_too_small(a, out) == find_variant(a, out, TblEntries - 1, TRUE, TRUE)
\* the scan goes on past a match while a later slot matches too (line 151)
find_last_match(a, out) == find_variant(a, out, TblEntries, TRUE, FALSE)

\* One iteration of the loop of nfp_cpp_resource_find(), lines 143-165, and
\* what follows the loop and the call (lines 167, 198-200).
\*   out = "short":   nfp_cpp_read() returns less than the entry: -EIO
\*   out = "nomutex": nfp_cpp_mutex_alloc() of the entry's mutex returns NULL
nfp_cpp_resource_find(a, out) ==
    /\ pc[a] = "find"
    /\ LET i == frame[a].i
           entry == table[i]
           addr == SlotAddr(i)
       IN  CASE out = "short" ->
                  /\ frame' = [frame EXCEPT ![a].err = EIO]
                  /\ pc' = [pc EXCEPT ![a] = "err_unlock_dev"]
                  /\ trace' = Log(trace, a, <<Ev("read_short", i)>>)
                  /\ heap' = heap
             [] out # "short" /\ entry.key # frame[a].key ->
                  /\ out = "ok"
                  /\ trace' = Log(trace, a, <<Ev("read", i)>>)
                  /\ heap' = heap
                  /\ IF i + 1 < TblEntries
                     THEN /\ frame' = [frame EXCEPT ![a].i = i + 1]
                          /\ pc' = pc
                     ELSE /\ frame' = [frame EXCEPT ![a].err = ENOENT]
                          /\ pc' = [pc EXCEPT ![a] = "err_unlock_dev"]
             [] OTHER ->
                  /\ frame' = [frame EXCEPT
                       ![a].res = Ptr([Deref(@) EXCEPT
                           !.mutex = IF out = "nomutex" THEN Null
                                     ELSE Ptr(Mutex(addr, frame[a].key)),
                           !.cpp_id = NFP_CPP_ID(entry.cpp_target,
                                                 entry.cpp_action,
                                                 entry.cpp_token),
                           !.addr = ShiftLeft8_u64(entry.page_offset),
                           !.size = ShiftLeft8_u64(entry.page_size)])]
                  /\ pc' = [pc EXCEPT ![a] = "res_lock"]
                  /\ trace' = Log(trace, a,
                        <<Ev("read", i),
                          Ev(IF out = "nomutex" THEN "res_alloc_fail"
                             ELSE "res_alloc", i)>>)
                  /\ heap' = IF out = "nomutex" THEN heap
                             ELSE Alloc(heap, a, "mutex", 1)
    /\ UNCHANGED <<table, hw, handles, ret, wedged>>

\* Lines 202-204 as they would be without "if (err) goto
\* err_res_mutex_free": the call goes on although the lock failed
resource_lock_unchecked(a, out) ==
    /\ pc[a] = "res_lock"
    /\ Deref(frame[a].res).mutex # Null
    /\ IF out = "fail" THEN hw' = hw
       ELSE /\ nfp_cpp_mutex_trylock(hw, Deref(Deref(frame[a].res).mutex))
            /\ hw' = nfp_cpp_mutex_locked(hw, Deref(Deref(frame[a].res).mutex), a)
    /\ pc' = [pc EXCEPT ![a] = "unlock_dev"]
    /\ trace' = Log(trace, a, <<Ev("res_lock", frame[a].i)>>)
    /\ UNCHANGED <<table, frame, handles, ret, heap, wedged>>

\* the error path of line 202 unlocking the mutex it failed to lock
resource_lock_fail_unlocks(a, out) ==
    /\ pc[a] = "res_lock"
    /\ LET res == Deref(frame[a].res)
       IN  IF res.mutex = Null
           THEN /\ IF out = "fail"
                   THEN /\ pc' = [pc EXCEPT ![a] = "err_unlock_dev"]
                        /\ frame' = [frame EXCEPT ![a].err = EBUSY]
                   ELSE /\ pc' = [pc EXCEPT ![a] = "oops"]
                        /\ frame' = frame
                /\ trace' = Log(trace, a, <<Ev("res_lock_null", frame[a].i)>>)
                /\ UNCHANGED <<hw, heap>>
           ELSE IF out = "fail"
           THEN /\ pc' = [pc EXCEPT ![a] = "err_unlock_dev"]
                /\ frame' = [frame EXCEPT
                               ![a].err = EBUSY,
                               ![a].res = Ptr([res EXCEPT !.mutex = Null])]
                /\ trace' = Log(trace, a, <<Ev("res_lock_fail", frame[a].i),
                                            Ev("res_free", frame[a].i)>>)
                /\ heap' = Alloc(heap, a, "mutex", -1)
                /\ hw' = [hw EXCEPT ![frame[a].i] = None]
           ELSE /\ nfp_cpp_mutex_trylock(hw, Deref(res.mutex))
                /\ hw' = nfp_cpp_mutex_locked(hw, Deref(res.mutex), a)
                /\ pc' = [pc EXCEPT ![a] = "unlock_dev"]
                /\ trace' = Log(trace, a, <<Ev("res_lock", frame[a].i)>>)
                /\ UNCHANGED <<frame, heap>>
    /\ UNCHANGED <<table, handles, ret, wedged>>

\* Lines 202-204 and the label err_res_mutex_free (lines 210-211): lock the
\* entry's mutex; the call waits while another actor owns it.
\*   out = "fail": nfp_cpp_mutex_lock() reports an error, goto
\*                 err_res_mutex_free, where the handle is freed
\* When res->mutex is NULL the code still passes it to nfp_cpp_mutex_lock():
\* the dereference either kills the calling thread (out = "ok") or the call
\* and the nfp_cpp_mutex_free() after it come back with an error.
resource_lock(a, out) ==
    /\ pc[a] = "res_lock"
    /\ LET res == Deref(frame[a].res)
       IN  IF res.mutex = Null
           THEN /\ IF out = "fail"
                   THEN /\ pc' = [pc EXCEPT ![a] = "err_unlock_dev"]
                        /\ frame' = [frame EXCEPT ![a].err = EBUSY]
                   ELSE /\ pc' = [pc EXCEPT ![a] = "oops"]
                        /\ frame' = frame
                /\ trace' = Log(trace, a, <<Ev("res_lock_null", frame[a].i)>>)
                /\ UNCHANGED <<hw, heap>>
           ELSE IF out = "fail"
           THEN /\ pc' = [pc EXCEPT ![a] = "err_unlock_dev"]
                /\ frame' = [frame EXCEPT
                               ![a].err = EBUSY,
                               ![a].res = Ptr([res EXCEPT !.mutex = Null])]
                /\ trace' = Log(trace, a, <<Ev("res_lock_fail", frame[a].i),
                                            Ev("res_free", frame[a].i)>>)
                /\ heap' = Alloc(heap, a, "mutex", -1)
                /\ hw' = hw
           ELSE /\ nfp_cpp_mutex_trylock(hw, Deref(res.mutex))
                /\ hw' = nfp_cpp_mutex_locked(hw, Deref(res.mutex), a)
                /\ pc' = [pc EXCEPT ![a] = "unlock_dev"]
                /\ trace' = Log(trace, a, <<Ev("res_lock", frame[a].i)>>)
                /\ UNCHANGED <<frame, heap>>
    /\ UNCHANGED <<table, handles, ret, wedged>>

\* nfp_device_unlock(), lines 119-124: unlock the Device Lock (an error is
\* only logged) and free its handle.
nfp_device_unlock(a, out) ==
    /\ hw' = nfp_cpp_mutex_unlock(hw, Deref(frame[a].dev_mutex), out)
    /\ wedged' = Wedge(wedged, Deref(frame[a].dev_mutex), out)
    /\ heap' = Alloc(IF pc[a] = "unlock_dev" THEN heap
                     ELSE Alloc(heap, a, "res", -1), a, "mutex", -1)

\* Lines 206-208 as they would be without the nfp_device_unlock() call
acquire_finish_keep_dev(a, out) ==
    /\ pc[a] = "unlock_dev"
    /\ ret' = [ret EXCEPT ![a] = RetHandle(frame[a].res)]
    /\ frame' = [frame EXCEPT ![a] = Returned(@)]
    /\ pc' = [pc EXCEPT ![a] = "ret"]
    /\ UNCHANGED <<table, hw, handles, trace, heap, wedged>>

\* Lines 206-208: the success path releases the Device Lock and returns res.
acquire_finish(a, out) ==
    /\ pc[a] = "unlock_dev"
    /\ nfp_device_unlock(a, out)
    /\ ret' = [ret EXCEPT ![a] = RetHandle(frame[a].res)]
    /\ frame' = [frame EXCEPT ![a] = Returned(@)]
    /\ pc' = [pc EXCEPT ![a] = "ret"]
    /\ trace' = Log(trace, a, <<Ev(IF out = "ok" THEN "dev_unlock"
                                   ELSE "dev_unlock_fail", 0),
                                Ev("dev_free", 0)>>)
    /\ UNCHANGED <<table, handles>>

\* Lines 212-216 as they would be if the failing steps jumped to
\* err_free_res: the record is freed, the Device Lock is not released
acquire_unwind_no_unlock(a, out) ==
    /\ pc[a] = "err_unlock_dev"
    /\ heap' = Alloc(heap, a, "res", -1)
    /\ ret' = [ret EXCEPT ![a] = RetErr(frame[a].err)]
    /\ frame' = [frame EXCEPT ![a] = Returned(@)]
    /\ pc' = [pc EXCEPT ![a] = "ret"]
    /\ trace' = Log(trace, a, <<Ev("kfree", 0)>>)
    /\ UNCHANGED <<table, hw, handles, wedged>>

\* Lines 212-216: err_unlock_dev releases the Device Lock, err_free_res
\* frees the record, and the call returns ERR_PTR(err).
acquire_unwind(a, out) ==
    /\ pc[a] = "err_unlock_dev"
    /\ nfp_device_unlock(a, out)
    /\ ret' = [ret EXCEPT ![a] = RetErr(frame[a].err)]
    /\ frame' = [frame EXCEPT ![a] = Returned(@)]
    /\ pc' = [pc EXCEPT ![a] = "ret"]
    /\ trace' = Log(trace, a, <<Ev(IF out = "ok" THEN "dev_unlock"
                                   ELSE "dev_unlock_fail", 0),
                                Ev("dev_free", 0), Ev("kfree", 0)>>)
    /\ UNCHANGED <<table, handles>>

\* The caller takes the value nfp_resource_acquire() returned: a handle
\* becomes one of its live handles.
acquire_return(a) ==
    /\ pc[a] = "ret"
    /\ handles' = [handles EXCEPT
                     ![a] = IF ret[a].kind = "handle"
                            THEN @ \cup {Deref(ret[a].res)} ELSE @]
    /\ pc' = [pc EXCEPT ![a] = "idle"]
    /\ frame' = [frame EXCEPT ![a] = NoFrame]
    /\ ret' = [ret EXCEPT ![a] = NoRet]
    /\ trace' = [trace EXCEPT ![a] = <<>>]
    /\ UNCHANGED <<table, hw, heap, wedged>>

(***************************************************************************)
(* nfp_resource_release(), lines 225-230.                                   *)
(***************************************************************************)
\* nfp_resource_release() as it would be if it returned as soon as
\* nfp_cpp_mutex_unlock() reported an error
nfp_resource_release_bail(a, res, out) ==
    /\ pc[a] = "idle"
    /\ res \in handles[a]
    /\ hw' = nfp_cpp_mutex_unlock(hw, Deref(res.mutex), out)
    /\ wedged' = Wedge(wedged, Deref(res.mutex), out)
    /\ IF out = "ok"
       THEN /\ heap' = Alloc(Alloc(heap, a, "mutex", -1), a, "res", -1)
            /\ handles' = [handles EXCEPT ![a] = @ \ {res}]
            /\ trace' = [trace EXCEPT
                   ![a] = <<Ev("release", SlotOf(Deref(res.mutex).address)),
                            Ev("res_free", SlotOf(Deref(res.mutex).address)),
                            Ev("kfree", 0)>>]
       ELSE /\ trace' = [trace EXCEPT
                   ![a] = <<Ev("release_unlock_fail",
                               SlotOf(Deref(res.mutex).address))>>]
            /\ UNCHANGED <<heap, handles>>
    /\ UNCHANGED <<table, pc, frame, ret>>

\* nfp_resource_release() as it would be if it also gave the slot back to
\* the table by clearing the key of its mutex word
nfp_resource_release_clears_key(a, res, out) ==
    /\ pc[a] = "idle"
    /\ res \in handles[a]
    /\ hw' = nfp_cpp_mutex_unlock(hw, Deref(res.mutex), out)
    /\ wedged' = Wedge(wedged, Deref(res.mutex), out)
    /\ table' = [table EXCEPT ![SlotOf(Deref(res.mutex).address)].key = Zero32]
    /\ heap' = Alloc(Alloc(heap, a, "mutex", -1), a, "res", -1)
    /\ handles' = [handles EXCEPT ![a] = @ \ {res}]
    /\ trace' = [trace EXCEPT
                   ![a] = <<Ev(IF out = "ok" THEN "release"
                               ELSE "release_unlock_fail",
                               SlotOf(Deref(res.mutex).address)),
                            Ev("res_free", SlotOf(Deref(res.mutex).address)),
                            Ev("kfree", 0)>>]
    /\ UNCHANGED <<pc, frame, ret>>

\* unlock the entry's mutex (its result is ignored), free the mutex handle,
\* free the record
nfp_resource_release(a, res, out) ==
    /\ pc[a] = "idle"
    /\ res \in handles[a]
    /\ hw' = nfp_cpp_mutex_unlock(hw, Deref(res.mutex), out)
    /\ wedged' = Wedge(wedged, Deref(res.mutex), out)
    /\ heap' = Alloc(Alloc(heap, a, "mutex", -1), a, "res", -1)
    /\ handles' = [handles EXCEPT ![a] = @ \ {res}]
    /\ trace' = [trace EXCEPT
                   ![a] = <<Ev(IF out = "ok" THEN "release"
                               ELSE "release_unlock_fail",
                               SlotOf(Deref(res.mutex).address)),
                            Ev("res_free", SlotOf(Deref(res.mutex).address)),
                            Ev("kfree", 0)>>]
    /\ UNCHANGED <<table, pc, frame, ret>>

(***************************************************************************)
(* The accessors, lines 238-274.                                            *)
(***************************************************************************)
\* what an accessor returned: the slot of the handle it was called on, the
\* accessor, the value
Seen(res, fn, val) ==
    [slot |-> SlotOf(Deref(res.mutex).address), fn |-> fn, val |-> val]

\* return res->cpp_id;
nfp_resource_cpp_id(a, res) ==
    /\ pc[a] = "idle"
    /\ res \in handles[a]
    /\ got' = [got EXCEPT ![a] = @ \cup {Seen(res, "cpp_id", res.cpp_id)}]
    /\ UNCHANGED resVars

\* return res->name;
nfp_resource_name(a, res) ==
    /\ pc[a] = "idle"
    /\ res \in handles[a]
    /\ got' = [got EXCEPT ![a] = @ \cup {Seen(res, "name", res.name)}]
    /\ UNCHANGED resVars

\* nfp_resource_address() as it would be if it handed out the region piece
\* by piece: it returns res->addr and moves it on by res->size
nfp_resource_address_moving(a, res) ==
    /\ pc[a] = "idle"
    /\ res \in handles[a]
    /\ got' = [got EXCEPT ![a] = @ \cup {Seen(res, "address", res.addr)}]
    /\ handles' = [handles EXCEPT
                     ![a] = (@ \ {res}) \cup {[res EXCEPT !.addr = res.size]}]
    /\ UNCHANGED <<table, hw, pc, frame, ret, trace, heap, wedged>>

\* return res->addr;
nfp_resource_address(a, res) ==
    /\ pc[a] = "idle"
    /\ res \in handles[a]
    /\ got' = [got EXCEPT ![a] = @ \cup {Seen(res, "address", res.addr)}]
    /\ UNCHANGED resVars

\* return res->size;
nfp_resource_size(a, res) ==
    /\ pc[a] = "idle"
    /\ res \in handles[a]
    /\ got' = [got EXCEPT ![a] = @ \cup {Seen(res, "size", res.size)}]
    /\ UNCHANGED resVars

\* nfp_resource_release() by a caller of the accessors: what it was told
\* about the handle goes with the handle
release_handle(a, res) ==
    /\ nfp_resource_release(a, res, "ok")
    /\ got' = [got EXCEPT
                 ![a] = {o \in @ : o.slot # SlotOf(Deref(res.mutex).address)}]

(***************************************************************************)
(* Specifications.                                                          *)
(***************************************************************************)
\* every outcome of the bus and the allocator
Next ==
    /\ \E a \in Actors :
        \/ \E n \in CallNames, out \in {"ok", "nores", "nomutex"} :
               acquire_begin(a, n, out)
        \/ \E out \in {"ok", "fail"} : nfp_device_lock(a, out)
        \/ \E out \in {"ok", "short", "nomutex"} : nfp_cpp_resource_find(a, out)
        \/ \E out \in {"ok", "fail"} : resource_lock(a, out)
        \/ \E out \in {"ok", "fail"} : acquire_finish(a, out)
        \/ \E out \in {"ok", "fail"} : acquire_unwind(a, out)
        \/ acquire_return(a)
        \/ \E res \in handles[a], out \in {"ok", "fail"} :
               nfp_resource_release(a, res, out)
    /\ UNCHANGED nonResVars

Spec == Init /\ [][Next]_vars

\* a bus and an allocator that never fail, callers that never give up a
\* wait, and every call in progress taking the steps it can take
FaultFreeNext ==
    /\ \E a \in Actors :
        \/ \E n \in CallNames : acquire_begin(a, n, "ok")
        \/ nfp_device_lock(a, "ok")
        \/ nfp_cpp_resource_find(a, "ok")
        \/ resource_lock(a, "ok")
        \/ acquire_finish(a, "ok")
        \/ acquire_unwind(a, "ok")
        \/ acquire_return(a)
        \/ \E res \in handles[a] : nfp_resource_release(a, res, "ok")
    /\ UNCHANGED nonResVars

\* a step of the call actor a has in progress
Progress(a) ==
    /\ \/ nfp_device_lock(a, "ok")
       \/ nfp_cpp_resource_find(a, "ok")
       \/ resource_lock(a, "ok")
       \/ acquire_finish(a, "ok")
       \/ acquire_unwind(a, "ok")
       \/ acquire_return(a)
    /\ UNCHANGED nonResVars

FairSpec ==
    /\ Init
    /\ [][FaultFreeNext]_vars
    /\ \A a \in Actors : SF_vars(Progress(a))

\* the actors that call the accessors on their handles
Readers == {1}

(***************************************************************************)
(* The key derivation on its own (nfp_cpp_resource_find, lines 129-141).    *)
(***************************************************************************)
\* names callers may pass: short ones, names of exactly eight bytes, longer
\* names that agree or differ in their first eight bytes, and names close
\* to the table's own
KeyNames ==
    { <<>>, NameA, NameB, <<97, 98>>,
      <<97, 98, 99, 100, 101, 102, 103>>,
      <<97, 98, 99, 100, 101, 102, 103, 104>>,
      <<97, 98, 99, 100, 101, 102, 103, 104, 105>>,
      <<97, 98, 99, 100, 101, 102, 103, 104, 106, 107>>,
      <<97, 98, 99, 100, 101, 102, 103, 105, 105>>,
      NFP_RESOURCE_TBL_NAME,
      <<110, 102, 112, 46, 114, 101>>,
      NFP_RESOURCE_TBL_NAME \o <<120>>,
      NFP_RESOURCE_TBL_NAME \o <<120, 121>> }

KeyInit ==
    /\ ResInit
    /\ PortIdle
    /\ UalIdle
    /\ key_names \in KeyNames \X KeyNames
    /\ key_out = <<>>

\* lines 129-141 run for each of the two names
derive_key ==
    /\ key_out = <<>>
    /\ key_out' = <<ResourceKey(key_names[1]), ResourceKey(key_names[2])>>
    /\ UNCHANGED key_names
    /\ UNCHANGED nonKeyVars

KeySpec == KeyInit /\ [][derive_key]_vars

\* callers that use their handles: acquire on a bus and an allocator that
\* never fail, the accessors on live handles in any order, release
AccessNext ==
    /\ UNCHANGED nonAccVars
    /\ \E a \in Actors :
        \/ /\ \/ \E n \in ResNames : acquire_begin(a, n, "ok")
              \/ nfp_device_lock(a, "ok")
              \/ nfp_cpp_resource_find(a, "ok")
              \/ resource_lock(a, "ok")
              \/ acquire_finish(a, "ok")
              \/ acquire_unwind(a, "ok")
              \/ acquire_return(a)
           /\ UNCHANGED accVars
        \/ \E res \in handles[a] : a \in Readers /\ nfp_resource_cpp_id(a, res)
        \/ \E res \in handles[a] : a \in Readers /\ nfp_resource_name(a, res)
        \/ \E res \in handles[a] : a \in Readers /\ nfp_resource_address(a, res)
        \/ \E res \in handles[a] : a \in Readers /\ nfp_resource_size(a, res)
        \/ \E res \in handles[a] : release_handle(a, res)

AccessSpec == Init /\ [][AccessNext]_vars

(***************************************************************************)
(* nfp_ual_set_port_id(), lines 133-151.                                    *)
(***************************************************************************)
PortInit ==
    /\ ResInit
    /\ KeyIdle
    /\ UalIdle
    /\ port_masks \in MaskPairs
    /\ repr_port_id \in [Reprs -> InitialPortIds]
    /\ repr_port_id0 = repr_port_id
    /\ port_pc = [c \in PortCallers |-> "idle"]
    /\ port_frame = [c \in PortCallers |-> NoPortCall]

\* line 142 without the bits of the old port id
new_port_id_no_merge(port_id, old_port_id) ==
    AndBits(port_id, port_masks.ual)

\* new_port_id = (port_id & UAL_MASK) | (old_port_id & MBL_MASK), line 142
new_port_id(port_id, old_port_id) ==
    OrBits(AndBits(port_id, port_masks.ual), AndBits(old_port_id, port_masks.mbl))

\* lines 138-141: reject a port id with MBL bits, or read the old port id
set_port_id_begin(c, repr, port_id) ==
    /\ port_pc[c] = "idle"
    /\ IF AndBits(port_id, port_masks.mbl) # Zero32
       THEN /\ port_frame' = [port_frame EXCEPT ![c] =
                    [repr |-> repr, port_id |-> port_id,
                     old_port_id |-> Zero32, ret |-> -EINVAL]]
            /\ UNCHANGED port_pc
       ELSE /\ port_frame' = [port_frame EXCEPT ![c] =
                    [repr |-> repr, port_id |-> port_id,
                     old_port_id |-> repr_port_id[repr], ret |-> 1]]
            /\ port_pc' = [port_pc EXCEPT ![c] = "set"]
    /\ UNCHANGED <<port_masks, repr_port_id, repr_port_id0>>
    /\ UNCHANGED nonPortVars

\* lines 142-150: nfp_repr_set_port_id(repr->netdev, new_port_id); return 0
set_port_id_set(c) ==
    /\ port_pc[c] = "set"
    /\ repr_port_id' = [repr_port_id EXCEPT ![port_frame[c].repr] =
            new_port_id(port_frame[c].port_id, port_frame[c].old_port_id)]
    /\ port_frame' = [port_frame EXCEPT ![c].old_port_id = Zero32, ![c].ret = 0]
    /\ port_pc' = [port_pc EXCEPT ![c] = "idle"]
    /\ UNCHANGED <<port_masks, repr_port_id0>>
    /\ UNCHANGED nonPortVars

PortNext ==
    \E c \in PortCallers :
        \/ \E repr \in Reprs, port_id \in CallPortIds :
              set_port_id_begin(c, repr, port_id)
        \/ set_port_id_set(c)

PortSpec == PortInit /\ [][PortNext]_vars

(***************************************************************************)
(* nfp_ual_register(), lines 51-91, and nfp_ual_unregister(), lines 98-124. *)
(***************************************************************************)
UalInit ==
    /\ ResInit
    /\ KeyIdle
    /\ PortIdle
    \* the global context exists or not; with one, a primary device
    \* (ctx->dev_ctx[NFP_MBL_DEV_INDEX_PRIMARY]) is bound or not
    /\ ctx \in {c \in [present : BOOLEAN, dev_ctx : BOOLEAN, ual_ops : {NoOps},
                        ual_cookie : {NoCookie}, mbl_lock : {None}] :
                    c.dev_ctx => c.present}
    /\ ual_pc = [t \in Threads |-> "idle"]
    /\ ual_frame = [t \in Threads |-> NoUalCall]
    /\ registered = NoRegistration
    /\ reg_ok = 0

\* the threads between mutex_lock (line 68) and mutex_unlock (82 or 89)
Assigning == {u \in Threads : ual_pc[u] \in {"ops", "info", "init", "reset"}}
\* the threads in a register call that has not yet released mbl_lock
Registering ==
    {u \in Threads : ual_pc[u] \in {"lock", "ops", "info", "init", "reset"}}
UalCall(t, fn, ops, cookie) ==
    [ fn |-> fn, ops |-> ops, cookie |-> cookie,
      done |-> FALSE, ret |-> 0, seen |-> registered,
      busy |-> \E u \in Threads \ {t} : ual_pc[u] # "idle",
      cut |-> FALSE, taken |-> FALSE ]
UalReturn(f, val) == [f EXCEPT !.done = TRUE, !.ret = val]
\* thread t enters a call with frame f: the calls in progress are no longer
\* alone
Enter(t, f) ==
    [u \in Threads |->
        IF u = t THEN f
        ELSE IF ual_pc[u] # "idle" THEN [ual_frame[u] EXCEPT !.busy = TRUE]
        ELSE ual_frame[u]]
\* a step of thread t's unregister call that leaves its frame as f: the
\* register calls that hold or wait for mbl_lock are marked
Cut(t, f) ==
    [u \in Threads |->
        IF u = t THEN f
        ELSE IF u \in Registering THEN [ual_frame[u] EXCEPT !.cut = TRUE]
        ELSE ual_frame[u]]

\* lines 58-66: the argument check, the context, and the check that no UAL
\* is registered, all before mbl_lock is taken
register_begin(t, ops, cookie) ==
    /\ ual_pc[t] = "idle"
    /\ LET f == UalCall(t, "register", ops, cookie)
       IN  IF ops = NoOps \/ ops = NamelessOps
           THEN /\ ual_frame' = Enter(t, UalReturn(f, -EINVAL))
                /\ UNCHANGED ual_pc
           ELSE IF ~ctx.present
           THEN /\ ual_frame' = Enter(t, UalReturn(f, -EAGAIN))
                /\ UNCHANGED ual_pc
           ELSE IF ctx.ual_ops # NoOps
           THEN /\ ual_frame' = Enter(t, UalReturn(f, -EEXIST))
                /\ UNCHANGED ual_pc
           ELSE /\ ual_frame' = Enter(t, f)
                /\ ual_pc' = [ual_pc EXCEPT ![t] = "lock"]
    /\ UNCHANGED <<ctx, registered, reg_ok>>
    /\ UNCHANGED nonUalVars

\* lines 68-69: mutex_lock(&ctx->mbl_lock); ctx->ual_cookie = cookie
register_assign(t) ==
    /\ ual_pc[t] = "lock"
    /\ ctx.mbl_lock = None
    /\ ctx' = [ctx EXCEPT !.mbl_lock = t, !.ual_cookie = ual_frame[t].cookie]
    /\ ual_pc' = [ual_pc EXCEPT ![t] = "ops"]
    /\ UNCHANGED <<ual_frame, registered, reg_ok>>
    /\ UNCHANGED nonUalVars

\* lines 70-73: ctx->ual_ops = ops, a second plain store; then the test of
\* dev_ctx
register_assign_ops(t) ==
    /\ ual_pc[t] = "ops"
    /\ ctx' = [ctx EXCEPT !.ual_ops = ual_frame[t].ops]
    /\ ual_pc' = [ual_pc EXCEPT ![t] = IF ctx.dev_ctx THEN "info" ELSE "init"]
    /\ UNCHANGED <<ual_frame, registered, reg_ok>>
    /\ UNCHANGED nonUalVars

\* lines 74-75, with a primary device: dev_info() reads ctx->ual_ops again
\* and dereferences it for the name; when an unregister has stored NULL
\* in between, the thread dies on the NULL pointer, holding mbl_lock
register_info(t) ==
    /\ ual_pc[t] = "info"
    /\ ual_pc' = [ual_pc EXCEPT ![t] = IF ctx.ual_ops = NoOps THEN "oops"
                                       ELSE "init"]
    /\ UNCHANGED <<ctx, ual_frame, registered, reg_ok>>
    /\ UNCHANGED nonUalVars

\* lines 78-82 and 86-87: err = nfp_mbl_try_init_ual(); on success
\* mutex_unlock, with the wait for the probe work and the return still to
\* come; on failure ctx->ual_cookie = NULL
register_finish(t, err) ==
    /\ ual_pc[t] = "init"
    /\ IF err = 0
       THEN /\ ctx' = [ctx EXCEPT !.mbl_lock = None]
            /\ registered' = IF ual_frame[t].cut THEN registered
                             ELSE [ops |-> ual_frame[t].ops,
                                   cookie |-> ual_frame[t].cookie]
            /\ reg_ok' = IF ual_frame[t].cut \/ reg_ok = MaxRegCount
                         THEN reg_ok ELSE reg_ok + 1
            /\ ual_pc' = [ual_pc EXCEPT ![t] = "sync"]
            /\ UNCHANGED ual_frame
       ELSE /\ ctx' = [ctx EXCEPT !.ual_cookie = NoCookie]
            /\ ual_frame' = [ual_frame EXCEPT ![t].ret = err]
            /\ ual_pc' = [ual_pc EXCEPT ![t] = "reset"]
            /\ UNCHANGED <<registered, reg_ok>>
    /\ UNCHANGED nonUalVars

\* lines 83-84: cancel_delayed_work_sync(&ctx->probe_dw) has returned;
\* return 0
register_return(t) ==
    /\ ual_pc[t] = "sync"
    /\ ual_frame' = [ual_frame EXCEPT ![t] = UalReturn(@, 0)]
    /\ ual_pc' = [ual_pc EXCEPT ![t] = "idle"]
    /\ UNCHANGED <<ctx, registered, reg_ok>>
    /\ UNCHANGED nonUalVars

\* lines 88-90: ctx->ual_ops = NULL; mutex_unlock; return err
register_reset(t) ==
    /\ ual_pc[t] = "reset"
    /\ ctx' = [ctx EXCEPT !.ual_ops = NoOps, !.mbl_lock = None]
    /\ ual_frame' = [ual_frame EXCEPT ![t] = UalReturn(@, @.ret)]
    /\ ual_pc' = [ual_pc EXCEPT ![t] = "idle"]
    /\ UNCHANGED <<registered, reg_ok>>
    /\ UNCHANGED nonUalVars

\* lines 105-110: ctx = nfp_mbl_get_global_ctx(); return NULL without one;
\* then the test of dev_ctx.  No step of nfp_ual_unregister() takes
\* mbl_lock.
unregister_begin(t) ==
    /\ ual_pc[t] = "idle"
    /\ LET f == UalCall(t, "unregister", NoOps, NoCookie)
       IN  IF ctx.present
           THEN /\ ual_frame' = Enter(t, f)
                /\ ual_pc' = [ual_pc EXCEPT ![t] = IF ctx.dev_ctx THEN "info1"
                                                   ELSE "stop"]
           ELSE /\ ual_frame' = Enter(t, UalReturn(f, NoCookie))
                /\ UNCHANGED ual_pc
    /\ UNCHANGED <<ctx, registered, reg_ok>>
    /\ UNCHANGED nonUalVars

\* line 113, with a primary device: the first read of ctx->ual_ops in the
\* argument of dev_info(), the test for NULL
unregister_info_test(t) ==
    /\ ual_pc[t] = "info1"
    /\ ual_pc' = [ual_pc EXCEPT ![t] = IF ctx.ual_ops = NoOps THEN "stop"
                                       ELSE "info2"]
    /\ UNCHANGED <<ctx, ual_frame, registered, reg_ok>>
    /\ UNCHANGED nonUalVars

\* lines 113 and 114: the second and the third read of ctx->ual_ops, each
\* dereferenced for the name; when another call has stored NULL since the
\* test (line 88 or 121), the thread dies on the NULL pointer.  (Ops with
\* a NULL name are never stored, line 58.)
unregister_info_name(t) ==
    /\ ual_pc[t] \in {"info2", "info3"}
    /\ ual_pc' = [ual_pc EXCEPT ![t] =
                     IF ctx.ual_ops = NoOps THEN "oops"
                     ELSE IF ual_pc[t] = "info2" THEN "info3" ELSE "stop"]
    /\ UNCHANGED <<ctx, ual_frame, registered, reg_ok>>
    /\ UNCHANGED nonUalVars

\* line 117: nfp_mbl_stop_ual(), which writes none of ual_ops, ual_cookie
\* and mbl_lock
unregister_stop(t) ==
    /\ ual_pc[t] = "stop"
    /\ ual_pc' = [ual_pc EXCEPT ![t] = "load"]
    /\ ual_frame' = Cut(t, ual_frame[t])
    /\ registered' = NoRegistration
    /\ reg_ok' = 0
    /\ UNCHANGED ctx
    /\ UNCHANGED nonUalVars

\* line 119: cookie = ctx->ual_cookie
unregister_load(t) ==
    /\ ual_pc[t] = "load"
    /\ ual_pc' = [ual_pc EXCEPT ![t] = "clear_cookie"]
    /\ ual_frame' =
          [u \in Threads |->
              IF u = t THEN [ual_frame[t] EXCEPT !.ret = ctx.ual_cookie]
              ELSE IF u \in Registering
              THEN [ual_frame[u] EXCEPT
                      !.cut = TRUE,
                      !.taken = @ \/ (ual_pc[u] \in {"ops", "info", "init"}
                                        /\ ctx.ual_cookie = ual_frame[u].cookie)]
              ELSE ual_frame[u]]
    /\ registered' = NoRegistration
    /\ reg_ok' = 0
    /\ UNCHANGED ctx
    /\ UNCHANGED nonUalVars

\* line 120: ctx->ual_cookie = NULL
unregister_clear_cookie(t) ==
    /\ ual_pc[t] = "clear_cookie"
    /\ ctx' = [ctx EXCEPT !.ual_cookie = NoCookie]
    /\ ual_pc' = [ual_pc EXCEPT ![t] = "clear_ops"]
    /\ ual_frame' = Cut(t, ual_frame[t])
    /\ registered' = NoRegistration
    /\ reg_ok' = 0
    /\ UNCHANGED nonUalVars

\* lines 121-123: ctx->ual_ops = NULL; return cookie
unregister_clear_ops(t) ==
    /\ ual_pc[t] = "clear_ops"
    /\ ctx' = [ctx EXCEPT !.ual_ops = NoOps]
    /\ ual_pc' = [ual_pc EXCEPT ![t] = "idle"]
    /\ ual_frame' = Cut(t, UalReturn(ual_frame[t], ual_frame[t].ret))
    /\ registered' = NoRegistration
    /\ reg_ok' = 0
    /\ UNCHANGED nonUalVars

\* nfp_ual_register(), lines 51-91, after its entry
nfp_ual_register(t) ==
    \/ register_assign(t)
    \/ register_assign_ops(t)
    \/ register_info(t)
    \/ \E err \in InitResults : register_finish(t, err)
    \/ register_return(t)
    \/ register_reset(t)

\* nfp_ual_unregister(), lines 98-124
nfp_ual_unregister(t) ==
    \/ unregister_begin(t)
    \/ unregister_info_test(t)
    \/ unregister_info_name(t)
    \/ unregister_stop(t)
    \/ unregister_load(t)
    \/ unregister_clear_cookie(t)
    \/ unregister_clear_ops(t)

UalNext ==
    \E t \in Threads :
        \/ \E args \in RegisterArgs(t) : register_begin(t, args[1], args[2])
        \/ nfp_ual_register(t)
        \/ nfp_ual_unregister(t)

UalSpec == UalInit /\ [][UalNext]_vars

(***************************************************************************)
(* Vocabulary of the properties.                                            *)
(***************************************************************************)
Range(seq) == {seq[k] : k \in DOMAIN seq}

\* the handles actor a has been given and not yet released, the one its
\* finished call is returning included
LiveHandles(a) ==
    handles[a] \cup (IF ret[a].kind = "handle" THEN {Deref(ret[a].res)} ELSE {})

HandleSlot(h) == SlotOf(Deref(h.mutex).address)

\* the live handles on slot s, each with its actor
LiveOn(s) ==
    UNION { {<<a, h>> : h \in {x \in LiveHandles(a) : HandleSlot(x) = s}} :
            a \in Actors }

\* the events of a kind in a trace, in order
IsRead(e) == e[1] \in {"read", "read_short"}
IsDevUnlock(e) == e[1] \in {"dev_unlock", "dev_unlock_fail"}
IsDevLock(e) == e[1] = "dev_lock"
IsResAlloc(e) == e[1] = "res_alloc"
IsResFree(e) == e[1] = "res_free"
IsResLock(e) == e[1] \in {"res_lock", "res_lock_fail", "res_lock_null"}
Events(tr, Is(_)) == SelectSeq(tr, Is)

\* the slots that carry the key of a name, and the first of them
Matching(n) == {s \in Slots : table[s].key = KeyMemo[n]}
Min(S) == CHOOSE x \in S : \A y \in S : x <= y

\* between a successful nfp_device_lock() and the nfp_device_unlock() that
\* matches it (a thread killed in between never reaches the unlock)
InScan(a) == pc[a] \in {"find", "res_lock", "unlock_dev", "err_unlock_dev", "oops"}

\* the call of actor a has returned an error / a handle
ReturnedError(a) == pc[a] = "ret" /\ ret[a].kind = "error"
ReturnedHandle(a) == pc[a] = "ret" /\ ret[a].kind = "handle"

\* the hardware mutex of slot s is no longer actor a's, unless the
\* nfp_cpp_mutex_unlock() issued on it reported an error
GivenUp(a, s) == hw[s] = a => s \in wedged

(***************************************************************************)
(* C1. Mutual exclusion: in every reachable state, whatever the             *)
(* interleaving of acquire and release calls, at most one live handle       *)
(* exists for any directory entry, hence for any resource name.             *)
(***************************************************************************)
C1_MutualExclusion ==
    /\ \A s \in Slots : Cardinality(LiveOn(s)) <= 1
    /\ \A a, b \in Actors : \A h \in LiveHandles(a), g \in LiveHandles(b) :
           h.name = g.name => a = b /\ h = g

\* one actor holds a live handle while the other is asking for the same
\* resource and has reached the lock step on the same slot
C1_Witness ==
    \E a, b \in Actors :
        /\ a # b
        /\ \E h \in handles[a] :
              /\ pc[b] = "res_lock"
              /\ Deref(frame[b].res).mutex # Null
              /\ HandleSlot(Deref(frame[b].res)) = HandleSlot(h)

(***************************************************************************)
(* C2. Directory scans are serialized: at most one actor is between a       *)
(* successful nfp_device_lock and the matching nfp_device_unlock, that      *)
(* actor owns the Device Lock, and every directory read is issued by the    *)
(* owner of the Device Lock.                                                *)
(***************************************************************************)
C2_ScansSerialized ==
    /\ \A a, b \in Actors : InScan(a) /\ InScan(b) => a = b
    /\ \A a \in Actors : InScan(a) => hw[0] = a
    /\ \A a \in Actors :
           (\E k \in DOMAIN trace[a] : IsRead(trace[a][k]))
               => \/ hw[0] = a
                  \/ pc[a] = "ret" /\ Events(trace[a], IsDevUnlock) # <<>>

\* one actor is in the middle of its scan while the other waits for the
\* Device Lock
C2_Witness ==
    \E a, b \in Actors :
        /\ pc[a] = "find" /\ frame[a].i > 0
        /\ pc[b] = "dev_lock"

(***************************************************************************)
(* C3. Full unwind on failure: whenever nfp_resource_acquire returns an     *)
(* error, the calling actor holds neither the Device Lock nor a per-entry   *)
(* lock taken by the call, no mutex allocation of the call is outstanding,  *)
(* the resource record has been discarded, and the Device Lock, if it was   *)
(* taken, was released exactly once.  (An actor holds a lock from the       *)
(* nfp_cpp_mutex_lock that took it to the nfp_cpp_mutex_unlock issued on    *)
(* it; the hardware word is no longer the actor's unless that unlock        *)
(* itself reported an error.)                                               *)
(***************************************************************************)
C3_FullUnwind ==
    \A a \in Actors :
        ReturnedError(a) =>
            LET tr == trace[a] IN
            \* every allocation left belongs to a handle the actor still has
            /\ heap[a].mutex = Cardinality(handles[a])
            /\ heap[a].res = Cardinality(handles[a])
            /\ Len(Events(tr, IsResAlloc)) = Len(Events(tr, IsResFree))
            \* the Device Lock: unlocked once if it was locked, never otherwise
            /\ Len(Events(tr, IsDevLock)) <= 1
            /\ Len(Events(tr, IsDevUnlock)) = Len(Events(tr, IsDevLock))
            /\ GivenUp(a, 0)
            \* no per-entry lock was taken by the call
            /\ Ev("res_lock", frame[a].i) \notin Range(tr)
            /\ \A s \in Slots \ {0} :
                   hw[s] = a => \/ \E h \in handles[a] : HandleSlot(h) = s
                                \/ s \in wedged

\* the per-entry lock step failed, after the Device Lock was taken, because
\* the other actor holds the resource
C3_Witness ==
    \E a, b \in Actors :
        /\ a # b
        /\ ReturnedError(a) /\ ret[a].err = EBUSY
        /\ Ev("res_lock_fail", frame[a].i) \in Range(trace[a])
        /\ \E h \in handles[b] : HandleSlot(h) = frame[a].i
        /\ hw[0] = None

(***************************************************************************)
(* C4. Success-path lock ordering: in every successful acquire the events   *)
(* are, in this order: Device Lock taken, directory scanned, per-entry lock *)
(* of the matched entry taken, Device Lock released, handle returned.  At   *)
(* the return the caller holds the per-entry lock of the matched entry and  *)
(* not the Device Lock.                                                     *)
(***************************************************************************)
C4_SuccessOrder ==
    \A a \in Actors :
        /\ pc[a] = "res_lock" => hw[0] = a
        /\ pc[a] = "unlock_dev" => hw[0] = a /\ hw[frame[a].i] = a
        /\ ReturnedHandle(a) =>
              LET i == frame[a].i
                  h == Deref(ret[a].res)
              IN  /\ \E u \in {"dev_unlock", "dev_unlock_fail"} :
                        trace[a] =
                            <<Ev("kzalloc", 0), Ev("dev_alloc", 0), Ev("dev_lock", 0)>>
                            \o [j \in 1 .. (i + 1) |-> Ev("read", j - 1)]
                            \o <<Ev("res_alloc", i), Ev("res_lock", i),
                                 Ev(u, 0), Ev("dev_free", 0)>>
                  /\ i = Min(Matching(frame[a].name))
                  /\ HandleSlot(h) = i
                  /\ hw[i] = a
                  /\ GivenUp(a, 0)

\* a call has returned a handle after scanning past a slot, and the other
\* actor already owns the Device Lock
C4_Witness ==
    \E a, b \in Actors :
        /\ a # b
        /\ ReturnedHandle(a) /\ frame[a].i > 1
        /\ hw[frame[a].i] = a
        /\ hw[0] = b /\ pc[b] = "find"

(***************************************************************************)
(* C5. Independence of different resources: while a resource R1 is held by  *)
(* an actor that does not release it and another actor is calling acquire   *)
(* for R1, an acquire for a present resource R2 whose per-entry lock is     *)
(* free still eventually returns a handle (fair scheduling, a bus that      *)
(* never fails): a pending attempt on R1 never prevents the acquisition of  *)
(* R2.                                                                      *)
(***************************************************************************)
\* the slot an acquire for the name of actor c's call locks, if any
Target(c) == Min(Matching(frame[c].name))
\* actor c has a call in progress for a resource that a slot carries and
\* whose per-entry lock is free
AcquiringFree(c) ==
    /\ pc[c] \in {"dev_lock", "find", "res_lock"}
    /\ frame[c].name \in ResNames
    /\ Matching(frame[c].name) # {}
    /\ hw[Target(c)] = None
\* the call has returned a handle, or another actor took the resource
\* meanwhile
GotItOrTaken(c) ==
    \/ ReturnedHandle(c)
    \/ /\ frame[c].name \in ResNames
       /\ Matching(frame[c].name) # {}
       /\ hw[Target(c)] \notin {None, c}
\* a call in progress that can never finish whatever the other actors do:
\* a lookup of the table's own name (its per-entry mutex is the Device Lock
\* the caller already owns), or an acquire for a resource the caller itself
\* holds a handle on
SelfLookup == \E b \in Actors : frame[b].name = NFP_RESOURCE_TBL_NAME
SelfReacquire ==
    \E b \in Actors :
        /\ pc[b] # "idle"
        /\ Matching(frame[b].name) # {}
        /\ \E h \in handles[b] : HandleSlot(h) = Target(b)
CallerMisuse == SelfLookup \/ SelfReacquire
C5_Independence ==
    \A c \in Actors :
        (AcquiringFree(c) /\ ~CallerMisuse) ~> (GotItOrTaken(c) \/ CallerMisuse)

(***************************************************************************)
(* C6. Release makes the resource acquirable again (a bus that never fails, *)
(* fair scheduling): the per-entry lock of a slot is owned by actor a       *)
(* exactly while a has a live handle on the slot or is completing the       *)
(* acquire that locked it, so no second handle for the name exists while    *)
(* one is live and nfp_resource_release leaves the lock free; and once the  *)
(* slot of a name is free with no holder, an acquire for the name by any    *)
(* actor, already pending or started afterwards, returns a handle on the    *)
(* slot unless another actor gets the slot first, in every round of         *)
(* acquire and release.                                                     *)
(***************************************************************************)
\* actor a has a live handle on slot s, or has locked the slot's mutex in a
\* call that is about to return the handle
HoldsEntry(a, s) ==
    \/ \E h \in LiveHandles(a) : HandleSlot(h) = s
    \/ pc[a] = "unlock_dev" /\ frame[a].i = s
LockFollowsHandle ==
    \A s \in Slots \ {0} : \A a \in Actors : hw[s] = a <=> HoldsEntry(a, s)
\* actor b has a call in progress, at any step up to the lock step, for a
\* name whose slot s is free and has no holder
PendingOnFree(b, s) ==
    /\ pc[b] \in {"dev_lock", "find", "res_lock"}
    /\ frame[b].name \in ResNames
    /\ Matching(frame[b].name) # {}
    /\ s = Min(Matching(frame[b].name))
    /\ hw[s] = None /\ LiveOn(s) = {}
C6_ReleaseReacquire ==
    /\ []LockFollowsHandle
    /\ \A b \in Actors : \A s \in Slots \ {0} :
           (PendingOnFree(b, s) /\ ~CallerMisuse)
               ~> \/ ReturnedHandle(b) /\ frame[b].i = s
                  \/ \E a \in Actors \ {b} : HoldsEntry(a, s)
                  \/ CallerMisuse

(***************************************************************************)
(* C7. Scan abort on short read: if the read of slot k returns fewer bytes  *)
(* than the entry size (no slot before k carrying the target key), acquire  *)
(* reports -EIO, never -ENOENT and never a handle, and no read is issued    *)
(* for a slot after k, even if such a slot carries the target key.          *)
(***************************************************************************)
C7_ShortReadAborts ==
    \A a \in Actors : \A k \in Slots :
        Ev("read_short", k) \in Range(trace[a]) =>
            /\ pc[a] \in {"err_unlock_dev", "ret"}
            /\ frame[a].err = EIO
            /\ pc[a] = "ret" => ret[a] = RetErr(EIO)
            /\ Events(trace[a], IsRead) =
                   [j \in 1 .. k |-> Ev("read", j - 1)] \o <<Ev("read_short", k)>>
            /\ \A j \in 0 .. (k - 1) : table[j].key # frame[a].key
            /\ Events(trace[a], IsResAlloc) = <<>>
            /\ Events(trace[a], IsResLock) = <<>>

\* the call returned -EIO for a short read at a slot before the one that
\* carries the key it was looking for
C7_Witness ==
    \E a \in Actors :
        /\ ReturnedError(a) /\ ret[a].err = EIO
        /\ Ev("read_short", frame[a].i) \in Range(trace[a])
        /\ \E j \in Matching(frame[a].name) : j > frame[a].i

(***************************************************************************)
(* C8. Exhaustive scan on miss: when no slot carries the target key and     *)
(* every read succeeds, the scan reads every slot 0 .. TblEntries-1 exactly *)
(* once, in increasing order, and acquire returns -ENOENT with the Device   *)
(* Lock released and no per-entry mutex ever allocated.                     *)
(***************************************************************************)
C8_ExhaustiveMiss ==
    \A a \in Actors :
        /\ pc[a] = "find" =>
              Events(trace[a], IsRead) =
                  [j \in 1 .. frame[a].i |-> Ev("read", j - 1)]
        /\ ( /\ pc[a] = "ret"
             /\ Ev("dev_lock", 0) \in Range(trace[a])
             /\ Matching(frame[a].name) = {}
             /\ \A k \in Slots : Ev("read_short", k) \notin Range(trace[a]) )
           => /\ ret[a] = RetErr(ENOENT)
              /\ Events(trace[a], IsRead) =
                     [j \in 1 .. TblEntries |-> Ev("read", j - 1)]
              /\ \A k \in Slots : /\ Ev("res_alloc", k) \notin Range(trace[a])
                                  /\ Ev("res_alloc_fail", k) \notin Range(trace[a])
              /\ Len(Events(trace[a], IsDevUnlock)) = 1
              /\ GivenUp(a, 0)
              /\ heap[a].mutex = Cardinality(handles[a])
        /\ (ReturnedError(a) /\ ret[a].err = ENOENT)
              => Matching(frame[a].name) = {}

\* a resource name that no slot carries was looked up and the call
\* returned -ENOENT
C8_Witness ==
    \E a \in Actors :
        /\ ReturnedError(a) /\ ret[a].err = ENOENT
        /\ frame[a].name \in ResNames
        /\ Len(Events(trace[a], IsRead)) = TblEntries
        /\ hw[0] # a

(***************************************************************************)
(* C9. Per-entry mutex allocation failure is handled: when the scan finds   *)
(* a matching entry but the allocation of the per-entry mutex fails,        *)
(* acquire returns -ENOMEM without attempting to lock a non-existent mutex, *)
(* with the Device Lock released and the record discarded.                  *)
(***************************************************************************)
C9_AllocFailureHandled ==
    \A a \in Actors :
        (\E k \in Slots : Ev("res_alloc_fail", k) \in Range(trace[a])) =>
            /\ Events(trace[a], IsResLock) = <<>>
            /\ pc[a] # "oops"
            /\ pc[a] = "ret" => /\ ret[a] = RetErr(ENOMEM)
                                /\ GivenUp(a, 0)
                                /\ heap[a].res = Cardinality(handles[a])

(***************************************************************************)
(* C10. Device Lock failure aborts before any scan: if allocating or        *)
(* locking the Device Lock fails, acquire returns -ENOMEM, no directory     *)
(* read is issued, no per-entry mutex is allocated or locked, the Device    *)
(* Lock mutex allocation (if made) is freed and the record is discarded.    *)
(***************************************************************************)
C10_DevLockFailure ==
    \A a \in Actors :
        ( /\ pc[a] = "ret"
          /\ \/ Ev("dev_alloc_fail", 0) \in Range(trace[a])
             \/ Ev("dev_lock_fail", 0) \in Range(trace[a]) )
        => /\ ret[a] = RetErr(ENOMEM)
           /\ Events(trace[a], IsRead) = <<>>
           /\ Events(trace[a], IsResLock) = <<>>
           /\ \A k \in Slots : /\ Ev("res_alloc", k) \notin Range(trace[a])
                               /\ Ev("res_alloc_fail", k) \notin Range(trace[a])
           /\ Ev("dev_alloc", 0) \in Range(trace[a])
                 => Ev("dev_free", 0) \in Range(trace[a])
           /\ heap[a].mutex = Cardinality(handles[a])
           /\ heap[a].res = Cardinality(handles[a])
           /\ GivenUp(a, 0)

\* locking the Device Lock failed while the other actor owned it
C10_Witness ==
    \E a, b \in Actors :
        /\ a # b
        /\ ReturnedError(a)
        /\ Ev("dev_lock_fail", 0) \in Range(trace[a])
        /\ hw[0] = b /\ pc[b] = "find"


(***************************************************************************)
(* C11. Release never fails and always cleans up: once                      *)
(* nfp_resource_release has run on a live handle, nothing was reported to   *)
(* the caller, the per-entry mutex handle and the record were freed and the *)
(* handle is gone, whether or not nfp_cpp_mutex_unlock reported an error.   *)
(***************************************************************************)
IsRelease(e) == e[1] \in {"release", "release_unlock_fail"}
\* the latest call of actor a was nfp_resource_release()
Released(a) == pc[a] = "idle" /\ trace[a] # <<>> /\ IsRelease(trace[a][1])
C11_ReleaseCleansUp ==
    \A a \in Actors :
        Released(a) =>
            LET s == trace[a][1][2] IN
            /\ trace[a] = <<trace[a][1], Ev("res_free", s), Ev("kfree", 0)>>
            /\ ret[a] = NoRet
            /\ \A h \in handles[a] : HandleSlot(h) # s
            /\ heap[a].mutex = Cardinality(handles[a])
            /\ heap[a].res = Cardinality(handles[a])

\* a release whose nfp_cpp_mutex_unlock() reported an error, by an actor
\* that still has another handle
C11_Witness ==
    \E a \in Actors : \E s \in Slots :
        /\ Released(a)
        /\ trace[a][1] = Ev("release_unlock_fail", s)
        /\ handles[a] # {}

(***************************************************************************)
(* C12. Accessors are pure and stable: whatever nfp_resource_cpp_id,        *)
(* nfp_resource_name, nfp_resource_address and nfp_resource_size returned   *)
(* for a handle since it was acquired is the value of that field of the     *)
(* live handle, one value per accessor however often and in whatever order  *)
(* they were called and whatever the other actor did meanwhile; and a call  *)
(* of an accessor changes no handle, no lock and no directory entry.        *)
(***************************************************************************)
Field(h, fn) ==
    CASE fn = "cpp_id" -> h.cpp_id
      [] fn = "name" -> h.name
      [] fn = "address" -> h.addr
      [] fn = "size" -> h.size
StableSeen ==
    \A a \in Actors : \A o \in got[a] :
        /\ \E h \in handles[a] : HandleSlot(h) = o.slot /\ o.val = Field(h, o.fn)
        /\ \A q \in got[a] : q.slot = o.slot /\ q.fn = o.fn => q.val = o.val
\* a step in which an accessor returned something to an actor
AccessorReturned == \E a \in Actors : got[a] # got'[a] /\ got[a] \subseteq got'[a]
C12_AccessorsPure ==
    /\ []StableSeen
    /\ [][AccessorReturned => UNCHANGED resVars]_vars

\* an actor has called all four accessors on one handle and holds a second
\* handle, on a slot the other actor had locked and released before
C12_Witness ==
    \E a, b \in Actors : \E h \in handles[a] :
        /\ a # b
        /\ {o.fn : o \in {q \in got[a] : q.slot = HandleSlot(h)}}
               = {"cpp_id", "name", "address", "size"}
        /\ \E g \in handles[a] : g # h
        /\ trace[b] # <<>> /\ trace[b][1][1] = "release"

(***************************************************************************)
(* C13. The directory is read-only to this layer: no step of an acquire or  *)
(* a release, successful or failed, changes the key or the region           *)
(* descriptor of any table entry; of the state actors share, only the       *)
(* owners of the hardware mutexes change.                                   *)
(***************************************************************************)
C13_DirectoryReadOnly == [][table' = table]_vars

\* one actor's acquire has returned an error, the other has released a
\* handle and still holds one, and a mutex has changed owner
C13_Witness ==
    \E a, b \in Actors :
        /\ a # b
        /\ ReturnedError(a)
        /\ Released(b) /\ handles[b] # {}
        /\ \E s \in Slots \ {0} : hw[s] = b

(***************************************************************************)
(* C14. Key derivation depends only on the 8-byte form of the name: two     *)
(* names derive the same key exactly when their names cut to eight bytes    *)
(* and padded with zero bytes are equal (no two names tried here collide),  *)
(* the table's own name derives NFP_RESOURCE_TBL_KEY, and every other name  *)
(* derives crc32_posix of its eight padded bytes.                           *)
(***************************************************************************)
\* the first eight bytes of a name, zero bytes after its end
Pad8(n) == [k \in 1 .. 8 |-> IF k <= Len(n) THEN n[k] ELSE 0]
IsTblName(n) == Pad8(n) = <<110, 102, 112, 46, 114, 101, 115, 0>>
C14_KeyDerivation ==
    key_out # <<>> =>
        /\ (key_out[1] = key_out[2]) <=> (Pad8(key_names[1]) = Pad8(key_names[2]))
        /\ \A k \in {1, 2} :
              /\ IsTblName(key_names[k]) => key_out[k] = NFP_RESOURCE_TBL_KEY
              /\ ~IsTblName(key_names[k]) =>
                    key_out[k] = crc32_posix(Pad8(key_names[k]))

\* two different names longer than eight bytes that agree in their first
\* eight bytes have derived one key, which is not the table's
C14_Witness ==
    /\ key_out # <<>>
    /\ key_names[1] # key_names[2]
    /\ Len(key_names[1]) > 8 /\ Len(key_names[2]) > 8
    /\ key_out[1] = key_out[2]
    /\ key_out[1] # NFP_RESOURCE_TBL_KEY

(***************************************************************************)
(* C15. Reserved port-id bits are protected: a call of                      *)
(* nfp_ual_set_port_id whose port_id has a bit of the MBL mask returns      *)
(* -EINVAL and writes no port id; every other call returns 0 and sets the   *)
(* representor's port id to the caller's bits under the UAL mask together   *)
(* with the MBL bits the port id had; and the MBL bits of every             *)
(* representor's port id stay those it was created with.                    *)
(***************************************************************************)
TouchesMbl(port_id) == \E i \in 1 .. 32 : port_id[i] = 1 /\ port_masks.mbl[i] = 1
\* the bits of x at the positions of mask m, zero elsewhere
Under(x, m) == [i \in 1 .. 32 |-> IF m[i] = 1 THEN x[i] ELSE 0]
MblBitsKept ==
    \A r \in Reprs : Under(repr_port_id[r], port_masks.mbl)
                        = Under(repr_port_id0[r], port_masks.mbl)
\* what a finished call returned matches its argument
PortReturns ==
    \A c \in PortCallers :
        /\ port_frame[c].ret = -EINVAL => TouchesMbl(port_frame[c].port_id)
        /\ port_frame[c].ret = 0 => ~TouchesMbl(port_frame[c].port_id)
        /\ port_pc[c] = "set" => ~TouchesMbl(port_frame[c].port_id)
\* a step that returns -EINVAL writes no port id; a step that returns 0
\* writes the merged port id to the call's representor and to no other
PortStep ==
    \A c \in PortCallers :
        port_frame'[c] # port_frame[c] =>
            /\ port_frame'[c].ret = -EINVAL => repr_port_id' = repr_port_id
            /\ port_frame'[c].ret = 0 =>
                  \A r \in Reprs :
                      repr_port_id'[r] =
                          IF r = port_frame'[c].repr
                          THEN [i \in 1 .. 32 |->
                                  IF port_masks.mbl[i] = 1
                                  THEN repr_port_id[r][i]
                                  ELSE IF port_masks.ual[i] = 1
                                       THEN port_frame'[c].port_id[i]
                                       ELSE 0]
                          ELSE repr_port_id[r]
C15_ReservedBitsProtected ==
    /\ [](MblBitsKept /\ PortReturns)
    /\ [][PortStep]_vars

\* a representor created with MBL bits has been given UAL bits by one call
\* while another call on it was rejected
C15_Witness ==
    \E c, d \in PortCallers :
        /\ port_frame[c].ret = 0 /\ port_frame[d].ret = -EINVAL
        /\ port_frame[c].repr = port_frame[d].repr
        /\ repr_port_id[port_frame[c].repr] # repr_port_id0[port_frame[c].repr]
        /\ Under(repr_port_id0[port_frame[c].repr], port_masks.mbl) # Zero32

(***************************************************************************)
(* C16. First match wins: a handle is built from the lowest slot that       *)
(* carries the key of its name, also when several slots carry it: its       *)
(* mutex is the one at that slot's address and the caller owns it, its      *)
(* cpp_id, address and size are those of that slot's region descriptor,     *)
(* and the call that returns it has read the slots up to that one, once     *)
(* each in table order, and no slot after it.                               *)
(***************************************************************************)
FirstMatch(n) == CHOOSE s \in Matching(n) : \A t \in Matching(n) : s <= t
BuiltFrom(h, s) ==
    /\ Deref(h.mutex).address = NFP_RESOURCE_TBL_BASE + EntrySize * s
    /\ h.cpp_id = NFP_CPP_ID(table[s].cpp_target, table[s].cpp_action,
                             table[s].cpp_token)
    /\ h.addr = ShiftLeft8_u64(table[s].page_offset)
    /\ h.size = ShiftLeft8_u64(table[s].page_size)
C16_FirstMatchWins ==
    \A a \in Actors :
        /\ \A h \in LiveHandles(a) :
              \E n \in CallNames :
                  /\ CStr(h.name) = n
                  /\ Matching(n) # {}
                  /\ BuiltFrom(h, FirstMatch(n))
                  /\ hw[FirstMatch(n)] = a
        /\ ReturnedHandle(a) =>
              LET first == FirstMatch(frame[a].name)
                  reads == Events(trace[a], IsRead)
              IN  /\ CStr(Deref(ret[a].res).name) = frame[a].name
                  /\ reads = [k \in 1 .. (first + 1) |-> Ev("read", k - 1)]
                  /\ \A k \in DOMAIN trace[a] :
                        trace[a][k][1] \in {"res_alloc", "res_lock"}
                            => trace[a][k][2] = first

\* a call has returned a handle for a name that two slots carry
C16_Witness ==
    \E a \in Actors :
        /\ ReturnedHandle(a)
        /\ Cardinality(Matching(frame[a].name)) >= 2
        /\ HandleSlot(Deref(ret[a].res)) < TblEntries - 1

(***************************************************************************)
(* C17. A failed acquire never disturbs another holder: the hardware        *)
(* per-entry lock of a slot is owned by the actor with a live handle on     *)
(* it, also after another actor's acquire failed at the lock step of that   *)
(* slot and cleaned up (its own mutex handle freed, the Device Lock given   *)
(* back); and the only step after which an actor no longer owns a           *)
(* per-entry lock is that actor's nfp_resource_release of its handle on     *)
(* the slot.                                                                *)
(***************************************************************************)
FailedLockOn(b, s) == Ev("res_lock_fail", s) \in Range(trace[b])
HolderKeepsLock ==
    \A a \in Actors, s \in Slots \ {0} :
        (\E h \in LiveHandles(a) : HandleSlot(h) = s) =>
            /\ hw[s] = a
            /\ \A b \in Actors \ {a} :
                  ReturnedError(b) /\ FailedLockOn(b, s) =>
                      /\ Ev("res_free", s) \in Range(trace[b])
                      /\ heap[b].mutex = Cardinality(handles[b])
                      /\ GivenUp(b, 0)
OnlyReleaseUnlocks ==
    \A a \in Actors, s \in Slots \ {0} :
        hw[s] = a /\ hw'[s] # a =>
            \E h \in handles[a] : HandleSlot(h) = s /\ h \notin handles'[a]
C17_FailedAcquireHarmless ==
    /\ []HolderKeepsLock
    /\ [][OnlyReleaseUnlocks]_vars

\* an acquire has failed at the lock step of a slot and returned its error
\* while the other actor has a live handle on the slot
C17_Witness ==
    \E a, b \in Actors, s \in Slots \ {0} :
        /\ a # b
        /\ ReturnedError(b) /\ FailedLockOn(b, s)
        /\ \E h \in handles[a] : HandleSlot(h) = s
        /\ hw[s] = a

(***************************************************************************)
(* C18. Page-to-byte conversion does not wrap: the address and the size of  *)
(* a handle are page_offset * 256 and page_size * 256 of the entry it was   *)
(* built from, as exact 64-bit values also when the product does not fit    *)
(* 32 bits, and its cpp_id is made of that entry's cpp_target, cpp_action   *)
(* and cpp_token.                                                           *)
(***************************************************************************)
\* the number a vector of at most 16 bits stands for
RECURSIVE Val(_)
Val(bits) == IF bits = <<>> THEN 0 ELSE 2 * Val(SubSeq(bits, 1, Len(bits) - 1)) + bits[Len(bits)]
\* the 64-bit value v is 256 times the 32-bit value x, digit by digit in
\* base 65536: x = x1 * 2^16 + x0, v = d3 * 2^48 + d2 * 2^32 + d1 * 2^16 + d0
IsTimes256(v, x) ==
    LET x1 == Val(SubSeq(x, 1, 16))
        x0 == Val(SubSeq(x, 17, 32))
        d3 == Val(SubSeq(v, 1, 16))
        d2 == Val(SubSeq(v, 17, 32))
        d1 == Val(SubSeq(v, 33, 48))
        d0 == Val(SubSeq(v, 49, 64))
    IN  /\ Len(v) = 64 /\ Len(x) = 32
        /\ d0 = (x0 % 256) * 256
        /\ d1 = (x0 \div 256) + (x1 % 256) * 256
        /\ d2 = x1 \div 256
        /\ d3 = 0
C18_NoWrap ==
    \A a \in Actors : \A h \in LiveHandles(a) :
        LET entry == table[HandleSlot(h)]
        IN  /\ IsTimes256(h.addr, entry.page_offset)
            /\ IsTimes256(h.size, entry.page_size)
            /\ h.cpp_id \div 16777216 = entry.cpp_target
            /\ (h.cpp_id \div 65536) % 256 = entry.cpp_token
            /\ (h.cpp_id \div 256) % 256 = entry.cpp_action
            /\ h.cpp_id % 256 = 0

\* a handle whose address does not fit 32 bits and a handle whose size does
\* not fit 32 bits are live
C18_Witness ==
    \E a, b \in Actors :
        /\ \E h \in LiveHandles(a) : Val(SubSeq(h.addr, 17, 32)) > 0
        /\ \E h \in LiveHandles(b) : Val(SubSeq(h.size, 17, 32)) > 0

(***************************************************************************)
(* C19. Single registration under concurrency: in every interleaving of     *)
(* nfp_ual_register calls that no step of an nfp_ual_unregister call        *)
(* crosses, at most one call completes a registration, no register call    *)
(* holds mbl_lock to assign ops and cookie while a registration is in       *)
(* force, and a call with valid ops begun while a registration is in force  *)
(* returns -EEXIST.                                                         *)
(***************************************************************************)
InForce == registered # NoRegistration
C19_SingleRegistration ==
    /\ reg_ok <= 1
    /\ InForce => Assigning = {}
    /\ \A t \in Threads :
          /\ ual_frame[t].fn = "register"
          /\ ual_frame[t].ops \in UalOps
          /\ ual_frame[t].seen # NoRegistration
          => ual_frame[t].done /\ ual_frame[t].ret = -EEXIST

(***************************************************************************)
(* C20. Failed registration leaves no trace and unregister round-trips the  *)
(* cookie: a register call that returns an error leaves the registration    *)
(* in force in place (ops and cookie as registered) and nothing of what it  *)
(* stored reaches a caller of nfp_ual_unregister; an nfp_ual_unregister     *)
(* that runs with no other call in progress returns the cookie of the       *)
(* registration in force, NULL when there is none, and leaves ops and       *)
(* cookie NULL; and a register is rejected with -EEXIST only when a         *)
(* registration is in force or another call is in progress.                 *)
(***************************************************************************)
Failed(t) ==
    ual_frame[t].fn = "register" /\ ual_frame[t].done /\ ual_frame[t].ret < 0
Quiet == \A u \in Threads : ual_pc[u] = "idle"
C20_FailureLeavesNoTrace ==
    /\ \A t \in Threads : Failed(t) =>
          /\ ~ual_frame[t].taken
          /\ InForce /\ Assigning = {} =>
                /\ ctx.ual_ops = registered.ops
                /\ ctx.ual_cookie = registered.cookie
    /\ \A t \in Threads :
          ual_frame[t].fn = "unregister" /\ ual_frame[t].done
              /\ ~ual_frame[t].busy =>
                  /\ ual_frame[t].ret = ual_frame[t].seen.cookie
                  /\ Quiet /\ ~InForce =>
                        ctx.ual_ops = NoOps /\ ctx.ual_cookie = NoCookie
    /\ \A t \in Threads :
          ual_frame[t].fn = "register" /\ ual_frame[t].ret = -EEXIST =>
              ual_frame[t].seen # NoRegistration \/ ual_frame[t].busy
====
